---- MODULE Spec2Model ----
(***************************************************************************)
(* Request-observability pipeline of the Express demo service:             *)
(*   app.js     request logging middleware, route handlers, global error   *)
(*              handler, in-memory users/posts maps                        *)
(*   logger.js  winston logger: trace-context format, timestamp format,    *)
(*              OpenTelemetry (durable) transport and console transport    *)
(*   tracing.js WinstonInstrumentation logHook                             *)
(*                                                                         *)
(* One action is one turn of the Node.js event loop: a synchronous run of  *)
(* middleware and handler code up to the point where it returns to the     *)
(* loop (body still being read, await on timers, response handed to the    *)
(* socket).  Turns of different requests interleave freely.                *)
(***************************************************************************)
EXTENDS Integers, Sequences, FiniteSets, TLC

\* Number of requests the server is sent in one run.
NumReq == 2
\* Largest reading of Date.now() (milliseconds since the run began).
MaxClock == 2
\* Number of requests in the runs with tracing (at most NumReq).
TraceReqs == 1
\* Number of SIGTERM signals the process is sent in one run.
MaxSigterm == 1
\* Number of requests in the runs checked for what eventually happens (at
\* most NumReq).
DrainReqs == 2

Req == 1..NumReq

VARIABLES
  users,       \* app.js:9   Map id -> user
  posts,       \* app.js:10  Map id -> post
  req,         \* per request: position in its lifecycle, req/res fields, closure variables
  durable,     \* records handed to the OpenTelemetry transport, in order
  console,     \* records rendered by the console transport, in order
  trail,       \* history: for each emitted record, who emitted it, when, under which span
  clock,       \* Date.now()
  nextUuid,    \* number of uuidv4() calls so far
  activeSpan,  \* trace.getActiveSpan() in the async context of each request
  proc         \* the process and its server: listening, SIGTERMs handled, exited

vars == <<users, posts, req, durable, console, trail, clock, nextUuid, activeSpan, proc>>

-----------------------------------------------------------------------------
(* JavaScript values that reach the handlers in a request body.            *)

Undefined == [t |-> "undefined", s |-> "", n |-> 0]
Str(x) == [t |-> "string", s |-> x, n |-> 0]
Num(x) == [t |-> "number", s |-> "", n |-> x]

\* Number(s) for the strings used as inputs; nan marks NaN.
StringToNumber(s) ==
  CASE s = ""   -> [nan |-> FALSE, n |-> 0]
    [] s = "-5" -> [nan |-> FALSE, n |-> -5]
    [] OTHER    -> [nan |-> TRUE, n |-> 0]

ToNumber(v) ==
  CASE v.t = "number" -> [nan |-> FALSE, n |-> v.n]
    [] v.t = "string" -> StringToNumber(v.s)
    [] OTHER          -> [nan |-> TRUE, n |-> 0]

\* !v
Falsy(v) ==
  \/ v.t = "undefined"
  \/ v.t = "string" /\ v.s = ""
  \/ v.t = "number" /\ v.n = 0

IsNaN(v) == ToNumber(v).nan

\* v < 0 ; a comparison with NaN is false
LessThanZero(v) == ~ToNumber(v).nan /\ ToNumber(v).n < 0

\* uuidv4(): the k-th identifier drawn from the generator.
Uuid(k) == "uuid-" \o ToString(k)

\* new Date().toISOString(), as written by the callers of the logger
ToISOString(now) == [format |-> "ISO-8601", ms |-> now]

\* `${duration}ms`
Ms(d) == ToString(d) \o "ms"

EmptyObject == [k \in {} |-> 0]

-----------------------------------------------------------------------------
(* Spans.                                                                  *)

NoSpan == [traceId |-> "none", spanId |-> "none", traceFlags |-> 0]
SpanContexts ==
  { [traceId |-> "t1", spanId |-> "s1", traceFlags |-> 1],
    [traceId |-> "t1", spanId |-> "s2", traceFlags |-> 0] }

HexDigit(d) ==
  CASE d = 10 -> "a" [] d = 11 -> "b" [] d = 12 -> "c"
    [] d = 13 -> "d" [] d = 14 -> "e" [] d = 15 -> "f"
    [] OTHER  -> ToString(d)

\* Number.prototype.toString(16) for a non-negative integer
RECURSIVE ToString16(_)
ToString16(n) ==
  IF n < 16 THEN HexDigit(n) ELSE ToString16(n \div 16) \o HexDigit(n % 16)

-----------------------------------------------------------------------------
(* logger.js                                                               *)

DefaultMeta == ("service" :> "nodejs-signoz-service")

\* tracing.js logHook: runs on the record when a span is active.
LogHook(span, record) ==
  IF span # NoSpan
    THEN ("trace_id" :> span.traceId) @@ ("span_id" :> span.spanId)
         @@ ("trace_flags" :> ToString16(span.traceFlags))
         @@ ("service.name" :> "nodejs-signoz-service") @@ record
    ELSE ("service.name" :> "nodejs-signoz-service") @@ record

\* Mutant of TraceFormat: writes the fields always, empty without a span.
TraceFormatAlways(info, span) ==
  ("trace_id" :> IF span = NoSpan THEN "" ELSE span.traceId)
  @@ ("span_id" :> IF span = NoSpan THEN "" ELSE span.spanId)
  @@ ("trace_flags" :> IF span = NoSpan THEN "" ELSE ToString16(span.traceFlags))
  @@ info

\* logger.js:44-53, the first format of the logger
TraceFormat(info, span) ==
  IF span # NoSpan
    THEN ("trace_id" :> span.traceId) @@ ("span_id" :> span.spanId)
         @@ ("trace_flags" :> ToString16(span.traceFlags)) @@ info
    ELSE info

\* winston.format.timestamp({format: 'YYYY-MM-DD HH:mm:ss'}): sets info.timestamp
\* Mutant of TimestampFormat: a timestamp the caller passed is kept.
TimestampFormatUnlessGiven(info, now) ==
  info
  @@ ("timestamp" :> [format |-> "YYYY-MM-DD HH:mm:ss", ms |-> (now \div 1000) * 1000])

TimestampFormat(info, now) ==
  ("timestamp" :> [format |-> "YYYY-MM-DD HH:mm:ss", ms |-> (now \div 1000) * 1000])
  @@ info

\* logger.<level>(attrs): the record after defaultMeta, the instrumentation
\* hook (only invoked under an active span) and the logger's formats.
Logger(level, attrs, span, now) ==
  LET info0 == ("level" :> level) @@ attrs @@ DefaultMeta
      info1 == IF span # NoSpan THEN LogHook(span, info0) ELSE info0
  IN TimestampFormat(TraceFormat(info1, span), now)

\* winston.format.colorize(): the level wrapped in its colour
Colorize(info) ==
  ("level" :> [color |-> CASE info.level = "error" -> "red"
                           [] info.level = "warn"  -> "yellow"
                           [] info.level = "info"  -> "green"
                           [] OTHER                -> "blue",
               text |-> info.level]) @@ info

\* Keys prettyLog takes out of the attribute block (logger.js:11-12).
PrettyLogNamed == {"level", "message", "timestamp", "event"}
\* Mutant of PrettyLogDropped: the correlation field is stripped as well.
PrettyLogDroppedRequestId ==
  {"trace_id", "span_id", "trace_flags", "service", "timestamp", "requestId"}

PrettyLogDropped == {"trace_id", "span_id", "trace_flags", "service", "timestamp"}

\* logger.js:11-19: the console line and its attribute block
PrettyLog(info) ==
  LET keep == (DOMAIN info \ PrettyLogNamed) \ PrettyLogDropped
  IN [timestamp |-> info.timestamp, level |-> info.level, event |-> info.event,
      message |-> info.message, meta |-> [k \in keep |-> info[k]]]

\* A call logger.<level>(attrs) made by the application.
Call(level, attrs) == [level |-> level, attrs |-> attrs]

-----------------------------------------------------------------------------
(* Requests.                                                               *)

\* What a client sends: the route, its :scenario / :type parameter, and the
\* body.  kind "none": no body, req.body stays undefined; "malformed": a body
\* express.json() cannot parse; "object": a parsed JSON object.
NoFields ==
  [username |-> Undefined, email |-> Undefined, age |-> Undefined,
   userId |-> Undefined, title |-> Undefined, content |-> Undefined]

Input(route, param, kind, body) ==
  [route |-> route, param |-> param, kind |-> kind, body |-> body]

Method(in) == IF in.route \in {"users", "posts"} THEN "POST" ELSE "GET"

\* req.path
Path(in) ==
  CASE in.route = "users"  -> "/users"
    [] in.route = "posts"  -> "/posts"
    [] in.route = "perf"   -> "/performance-test/" \o in.param
    [] in.route = "simerr" -> "/simulate-error/" \o in.param
    [] OTHER               -> "/health"

\* A thrown Error object.
Error(name, message) ==
  [name |-> name, message |-> message,
   stack |-> name \o ": " \o message \o "\n    at <frames>"]

\* Mutant of Outcome: a turn that answers 500 empties the users storage.
OutcomeErrorResetsUsers(calls, c, pc, statusCode, resBody, faulted) ==
  [calls |-> calls, users |-> IF statusCode = 500 THEN EmptyObject ELSE c.users,
   posts |-> c.posts, nextUuid |-> c.nextUuid,
   pc |-> pc, statusCode |-> statusCode, resBody |-> resBody,
   perfStart |-> c.perfStart, faulted |-> faulted]

\* What one turn of a request does: the logger calls it makes, in order, the
\* stores after it, the response it has written (statusCode 0: none yet),
\* where the request stands afterwards.
Outcome(calls, c, pc, statusCode, resBody, faulted) ==
  [calls |-> calls, users |-> c.users, posts |-> c.posts, nextUuid |-> c.nextUuid,
   pc |-> pc, statusCode |-> statusCode, resBody |-> resBody,
   perfStart |-> c.perfStart, faulted |-> faulted]

-----------------------------------------------------------------------------
(* app.js:54-98  POST /users                                               *)

\* Mutant of ValidationErrors: the age test without its leading `age &&`.
ValidationErrorsAgeUnguarded(body) ==
  (IF Falsy(body.username) THEN <<"Username is required">> ELSE <<>>)
  \o (IF Falsy(body.email) THEN <<"Email is required">> ELSE <<>>)
  \o (IF IsNaN(body.age) \/ LessThanZero(body.age)
        THEN <<"Invalid age">> ELSE <<>>)

\* lines 59-62
ValidationErrors(body) ==
  (IF Falsy(body.username) THEN <<"Username is required">> ELSE <<>>)
  \o (IF Falsy(body.email) THEN <<"Email is required">> ELSE <<>>)
  \o (IF ~Falsy(body.age) /\ (IsNaN(body.age) \/ LessThanZero(body.age))
        THEN <<"Invalid age">> ELSE <<>>)

\* JSON.stringify(user): undefined members are left out, the Date is ISO text
JsonUser(user) ==
  [k \in {"id", "createdAt"}
         \cup {f \in {"username", "email", "age"} : user[f] # Undefined}
     |-> IF k = "createdAt" THEN ToISOString(user.createdAt) ELSE user[k]]

PostUsers(in, c) ==
  IF in.kind # "object"
    THEN \* req.body is undefined: the destructuring at line 56 throws, caught at 88
      LET error == Error("TypeError", "Cannot destructure property 'username' of 'req.body' as it is undefined.")
      IN Outcome(<<Call("error",
                     ("event" :> "USER_CREATION_ERROR")
                     @@ ("message" :> "Error creating user")
                     @@ ("requestId" :> c.requestId)
                     @@ ("error" :> error.message) @@ ("stack" :> error.stack))>>,
                 c, "responded", 500, ("error" :> "Failed to create user"), FALSE)
    ELSE
      LET errors == ValidationErrors(in.body)
          userId == Uuid(c.nextUuid + 1)
          user == [id |-> userId, username |-> in.body.username,
                   email |-> in.body.email, age |-> in.body.age, createdAt |-> c.now]
      IN IF Len(errors) > 0
           THEN Outcome(<<Call("warn",
                           ("event" :> "VALIDATION_FAILED")
                           @@ ("message" :> "User creation validation failed")
                           @@ ("requestId" :> c.requestId)
                           @@ ("errors" :> errors)
                           @@ ("userData" :> [username |-> in.body.username,
                                              email |-> in.body.email,
                                              age |-> in.body.age]))>>,
                        c, "responded", 400, ("errors" :> errors), FALSE)
           ELSE Outcome(<<Call("info",
                           ("event" :> "USER_CREATED")
                           @@ ("message" :> "New user created successfully")
                           @@ ("requestId" :> c.requestId)
                           @@ ("userId" :> userId)
                           @@ ("username" :> in.body.username))>>,
                        [c EXCEPT !.users = (userId :> user) @@ c.users,
                                  !.nextUuid = c.nextUuid + 1],
                        "responded", 201, JsonUser(user), FALSE)

-----------------------------------------------------------------------------
(* app.js:101-145  POST /posts                                             *)

\* users.has(userId): the keys are uuid strings
\* Mutant of UsersHas: the guard tests that a userId was sent, not that it
\* names a user.
UsersHasSent(us, userId) == ~Falsy(userId)

\* users.has(userId): the keys are strings, and only an equal string is a key.
UsersHas(us, userId) == userId.t = "string" /\ userId.s \in DOMAIN us

JsonPost(post) ==
  [k \in {"id", "createdAt", "likes"}
         \cup {f \in {"userId", "title", "content"} : post[f] # Undefined}
     |-> IF k = "createdAt" THEN ToISOString(post.createdAt) ELSE post[k]]

PostPosts(in, c) ==
  IF in.kind # "object"
    THEN \* req.body is undefined: the destructuring at line 103 throws, caught at 135
      LET error == Error("TypeError", "Cannot destructure property 'userId' of 'req.body' as it is undefined.")
      IN Outcome(<<Call("error",
                     ("event" :> "POST_CREATION_ERROR")
                     @@ ("message" :> "Error creating post")
                     @@ ("requestId" :> c.requestId)
                     @@ ("error" :> error.message) @@ ("stack" :> error.stack))>>,
                 c, "responded", 500, ("error" :> "Failed to create post"), FALSE)
    ELSE
      LET postId == Uuid(c.nextUuid + 1)
          post == [id |-> postId, userId |-> in.body.userId, title |-> in.body.title,
                   content |-> in.body.content, createdAt |-> c.now, likes |-> 0]
      IN IF ~UsersHas(c.users, in.body.userId)
           THEN Outcome(<<Call("warn",
                           ("event" :> "POST_CREATION_FAILED")
                           @@ ("message" :> "Post creation failed - User not found")
                           @@ ("requestId" :> c.requestId)
                           @@ ("userId" :> in.body.userId))>>,
                        c, "responded", 404, ("error" :> "User not found"), FALSE)
           ELSE Outcome(<<Call("info",
                           ("event" :> "POST_CREATED")
                           @@ ("message" :> "New post created")
                           @@ ("requestId" :> c.requestId)
                           @@ ("postId" :> postId)
                           @@ ("userId" :> in.body.userId))>>,
                        [c EXCEPT !.posts = (postId :> post) @@ c.posts,
                                  !.nextUuid = c.nextUuid + 1],
                        "responded", 201, JsonPost(post), FALSE)

-----------------------------------------------------------------------------
(* app.js:148-215  GET /performance-test/:scenario (an async function)     *)

PerfScenarios == {"cpu-intensive", "memory-intensive", "async-operations"}

PerfStarted(in, c) ==
  Call("info",
    ("event" :> "PERFORMANCE_TEST_STARTED")
    @@ ("message" :> "Starting performance test")
    @@ ("requestId" :> c.requestId)
    @@ ("scenario" :> in.param)
    @@ ("startTime" :> ToISOString(c.now)))

\* lines 188-202: after the switch
PerfCompleted(in, c) ==
  LET duration == c.now - c.perfStart
  IN Outcome(<<Call("info",
                 ("event" :> "PERFORMANCE_TEST_COMPLETED")
                 @@ ("message" :> "Performance test completed")
                 @@ ("requestId" :> c.requestId)
                 @@ ("scenario" :> in.param)
                 @@ ("duration" :> Ms(duration))
                 @@ ("endTime" :> ToISOString(c.now)))>>,
             c, "responded", 200,
             ("scenario" :> in.param) @@ ("duration" :> Ms(duration))
             @@ ("result" :> "Success"),
             FALSE)

\* lines 204-214: the catch
PerfFailed(in, c, error) ==
  Outcome(<<Call("error",
              ("event" :> "PERFORMANCE_TEST_FAILED")
              @@ ("message" :> "Performance test failed")
              @@ ("requestId" :> c.requestId)
              @@ ("scenario" :> in.param)
              @@ ("error" :> error.message)
              @@ ("duration" :> Ms(c.now - c.perfStart)))>>,
          c, "responded", 500, ("error" :> "Performance test failed"), FALSE)

\* Mutant of PerformanceTest: the switch has no default case, an unknown
\* scenario falls through to the code after it.
PerformanceTestNoDefault(in, c) ==
  LET c1 == [c EXCEPT !.perfStart = c.now]
      rest == IF in.param = "async-operations"
                THEN Outcome(<<>>, c1, "awaiting", 200, EmptyObject, FALSE)
                ELSE PerfCompleted(in, c1)
  IN [rest EXCEPT !.calls = <<PerfStarted(in, c1)>> \o rest.calls]

\* The handler up to its first return to the event loop: to the end for the
\* synchronous scenarios, to the await for async-operations.
PerformanceTest(in, c) ==
  LET c1 == [c EXCEPT !.perfStart = c.now]
      rest == CASE in.param \in {"cpu-intensive", "memory-intensive"} ->
                     PerfCompleted(in, c1)
                [] in.param = "async-operations" ->
                     Outcome(<<>>, c1, "awaiting", 200, EmptyObject, FALSE)
                [] OTHER ->
                     PerfFailed(in, c1, Error("Error", "Invalid scenario"))
  IN [rest EXCEPT !.calls = <<PerfStarted(in, c1)>> \o rest.calls]

-----------------------------------------------------------------------------
(* app.js:290-307  global error handler                                    *)

\* req.requestId || 'unknown'
OrUnknown(requestId) == IF requestId = "" THEN "unknown" ELSE requestId

\* Mutant of GlobalErrorHandler: answers with the status the fault suggests
\* (400 for a body that does not parse) instead of 500.
GlobalErrorHandlerFaultStatus(in, c, err) ==
  Outcome(<<Call("error",
              ("event" :> "UNHANDLED_ERROR")
              @@ ("message" :> "Unhandled application error")
              @@ ("requestId" :> OrUnknown(c.requestId))
              @@ ("error" :> err.message)
              @@ ("stack" :> err.stack)
              @@ ("path" :> Path(in))
              @@ ("method" :> Method(in))
              @@ ("timestamp" :> ToISOString(c.now)))>>,
          c, "responded", 400,
          ("error" :> "Internal Server Error")
          @@ ("requestId" :> OrUnknown(c.requestId))
          @@ ("message" :> err.message),
          TRUE)

GlobalErrorHandler(in, c, err) ==
  Outcome(<<Call("error",
              ("event" :> "UNHANDLED_ERROR")
              @@ ("message" :> "Unhandled application error")
              @@ ("requestId" :> OrUnknown(c.requestId))
              @@ ("error" :> err.message)
              @@ ("stack" :> err.stack)
              @@ ("path" :> Path(in))
              @@ ("method" :> Method(in))
              @@ ("timestamp" :> ToISOString(c.now)))>>,
          c, "responded", 500,
          ("error" :> "Internal Server Error")
          @@ ("requestId" :> OrUnknown(c.requestId))
          @@ ("message" :> err.message),
          TRUE)

-----------------------------------------------------------------------------
(* app.js:218-268  GET /simulate-error/:type                               *)

\* The fault each case of the switch raises.
SimulatedError(errorType) ==
  CASE errorType = "reference" ->
         Error("ReferenceError", "nonExistentVariable is not defined")
    [] errorType = "type"   -> Error("TypeError", "num.split is not a function")
    [] errorType = "syntax" -> Error("SyntaxError", "Unexpected end of input")
    [] errorType = "custom" -> Error("Error", "Custom application error")
    [] OTHER                -> Error("Error", "Unknown error type")

\* Mutant of SimulateError: the eval of the syntax case outside the try, so
\* that its fault goes to the global error handler.
SimulateErrorEvalOutsideTry(in, c) ==
  LET error == SimulatedError(in.param)
      started == Call("info",
                   ("event" :> "ERROR_SIMULATION_STARTED")
                   @@ ("message" :> "Starting error simulation")
                   @@ ("requestId" :> c.requestId)
                   @@ ("errorType" :> in.param))
  IN IF in.param = "syntax"
       THEN [GlobalErrorHandler(in, c, error) EXCEPT
               !.calls = <<started>> \o GlobalErrorHandler(in, c, error).calls]
       ELSE Outcome(<<started,
                      Call("error",
                        ("event" :> "ERROR_SIMULATION_TRIGGERED")
                        @@ ("message" :> "Simulated error occurred")
                        @@ ("requestId" :> c.requestId)
                        @@ ("errorType" :> in.param)
                        @@ ("error" :> error.message)
                        @@ ("stack" :> error.stack)
                        @@ ("timestamp" :> ToISOString(c.now)))>>,
                    c, "responded", 500,
                    ("error" :> "Simulated error") @@ ("type" :> in.param)
                    @@ ("message" :> error.message),
                    FALSE)

SimulateError(in, c) ==
  LET error == SimulatedError(in.param)
  IN Outcome(<<Call("info",
                 ("event" :> "ERROR_SIMULATION_STARTED")
                 @@ ("message" :> "Starting error simulation")
                 @@ ("requestId" :> c.requestId)
                 @@ ("errorType" :> in.param)),
               Call("error",
                 ("event" :> "ERROR_SIMULATION_TRIGGERED")
                 @@ ("message" :> "Simulated error occurred")
                 @@ ("requestId" :> c.requestId)
                 @@ ("errorType" :> in.param)
                 @@ ("error" :> error.message)
                 @@ ("stack" :> error.stack)
                 @@ ("timestamp" :> ToISOString(c.now)))>>,
             c, "responded", 500,
             ("error" :> "Simulated error") @@ ("type" :> in.param)
             @@ ("message" :> error.message),
             FALSE)

-----------------------------------------------------------------------------
(* app.js:271-287  GET /health                                             *)

Health(in, c) ==
  LET health == [uptime |-> c.now, timestamp |-> ToISOString(c.now),
                 memory |-> "memoryUsage", cpu |-> "cpuUsage"]
  IN Outcome(<<Call("info",
                 ("event" :> "HEALTH_CHECK")
                 @@ ("message" :> "Health check performed")
                 @@ ("requestId" :> c.requestId)
                 @@ ("health" :> health))>>,
             c, "responded", 200,
             ("uptime" :> health.uptime) @@ ("timestamp" :> health.timestamp)
             @@ ("memory" :> health.memory) @@ ("cpu" :> health.cpu),
             FALSE)

-----------------------------------------------------------------------------
(* Routing: app.js:50-51 (cors, express.json) and the route table.         *)

\* The route handler the router picks for the request.
Route(in, c) ==
  CASE in.route = "users"  -> PostUsers(in, c)
    [] in.route = "posts"  -> PostPosts(in, c)
    [] in.route = "perf"   -> PerformanceTest(in, c)
    [] in.route = "simerr" -> SimulateError(in, c)
    [] OTHER               -> Health(in, c)

\* The fault express.json() raises on a body it cannot parse.
JsonFault == Error("SyntaxError", "Unexpected token in JSON")

\* express.json() once the body has been read: next(err) on a body it cannot
\* parse, next() into the router otherwise.
ExpressJson(in, c) ==
  IF in.kind = "malformed"
    THEN GlobalErrorHandler(in, c, JsonFault)
    ELSE Route(in, c)

-----------------------------------------------------------------------------
(* app.js:13-48  request logging middleware                                *)

RequestReceived(in, requestId, now) ==
  Call("info",
    ("event" :> "REQUEST_RECEIVED")
    @@ ("message" :> "New incoming request")
    @@ ("method" :> Method(in))
    @@ ("path" :> Path(in))
    @@ ("requestId" :> requestId)
    @@ ("timestamp" :> ToISOString(now)))

\* Mutant of RequestCompleted: the status code read at entry, before a handler set it.
RequestCompletedEntryStatus(in, requestId, startTime, statusCode, now) ==
  Call("info",
    ("event" :> "REQUEST_COMPLETED")
    @@ ("message" :> "Request processed")
    @@ ("method" :> Method(in))
    @@ ("path" :> Path(in))
    @@ ("requestId" :> requestId)
    @@ ("statusCode" :> 200)
    @@ ("duration" :> Ms(now - startTime))
    @@ ("timestamp" :> ToISOString(now)))

\* Mutant of RequestCompleted: the subtraction the other way round.
RequestCompletedReversed(in, requestId, startTime, statusCode, now) ==
  Call("info",
    ("event" :> "REQUEST_COMPLETED")
    @@ ("message" :> "Request processed")
    @@ ("method" :> Method(in))
    @@ ("path" :> Path(in))
    @@ ("requestId" :> requestId)
    @@ ("statusCode" :> statusCode)
    @@ ("duration" :> Ms(startTime - now))
    @@ ("timestamp" :> ToISOString(now)))

\* lines 33-45: the listener of the response's finish event
RequestCompleted(in, requestId, startTime, statusCode, now) ==
  Call("info",
    ("event" :> "REQUEST_COMPLETED")
    @@ ("message" :> "Request processed")
    @@ ("method" :> Method(in))
    @@ ("path" :> Path(in))
    @@ ("requestId" :> requestId)
    @@ ("statusCode" :> statusCode)
    @@ ("duration" :> Ms(now - startTime))
    @@ ("timestamp" :> ToISOString(now)))

\* Mutant of MiddlewareTurn: next() before the logger call.
MiddlewareTurnNextFirst(received, rest) == rest \o <<received>>

\* The logger calls of the turn that runs the middleware: its own call at
\* lines 18-30, then whatever next() at line 47 runs synchronously.
MiddlewareTurn(received, rest) == <<received>> \o rest

\* Mutant of RequestIdOf: one variable shared by all requests, holding the
\* identifier of the request that arrived last.
RequestIdShared(r) ==
  LET arrived == {q \in Req : req[q].pc # "idle"}
  IN req[CHOOSE q \in arrived : \A p \in arrived : p <= q].requestId

\* The requestId of request r: const requestId of its middleware closure
\* (line 14), also stored as req.requestId (line 15).
RequestIdOf(r) == req[r].requestId

\* Mutant of FinishCalls: no completion record once the error handler has answered.
FinishCallsUnlessFaulted(r) ==
  IF req[r].faulted THEN <<>>
  ELSE <<RequestCompleted(req[r].in, RequestIdOf(r), req[r].startTime,
                          req[r].statusCode, clock)>>

\* The logger calls made when the response of r has been handed off.
FinishCalls(r) ==
  <<RequestCompleted(req[r].in, RequestIdOf(r), req[r].startTime,
                     req[r].statusCode, clock)>>

-----------------------------------------------------------------------------
(* State.                                                                  *)

Idle ==
  [pc |-> "idle", in |-> Input("health", "", "none", NoFields), requestId |-> "",
   startTime |-> 0, statusCode |-> 200, resBody |-> EmptyObject, perfStart |-> 0,
   faulted |-> FALSE]

Init ==
  /\ users = EmptyObject
  /\ posts = EmptyObject
  /\ req = [r \in Req |-> Idle]
  /\ durable = <<>>
  /\ console = <<>>
  /\ trail = <<>>
  /\ clock = 0
  /\ nextUuid = 0
  /\ activeSpan = [r \in Req |-> NoSpan]
  /\ proc = [listening |-> TRUE, sigterms |-> 0, exited |-> FALSE]

\* What the code running for request r sees.
Context(r) ==
  [users |-> users, posts |-> posts, nextUuid |-> nextUuid, now |-> clock,
   requestId |-> RequestIdOf(r), perfStart |-> req[r].perfStart]

\* The logger calls of one turn reach both transports, in call order.  by is
\* the request the turn belongs to, 0 for a turn of the process itself.
Transports(by, span, calls) ==
  LET infos == [i \in 1..Len(calls) |->
                  Logger(calls[i].level, calls[i].attrs, span, clock)]
  IN /\ durable' = durable \o infos
     /\ console' = console \o [i \in 1..Len(calls) |-> PrettyLog(Colorize(infos[i]))]
     /\ trail' = trail \o [i \in 1..Len(calls) |->
                             [by |-> by, span |-> span, at |-> clock]]

Deliver(r, calls) == Transports(r, activeSpan[r], calls)

\* The stores and the request after a turn with outcome o.
Settle(r, o, rq) ==
  /\ users' = o.users
  /\ posts' = o.posts
  /\ nextUuid' = o.nextUuid
  /\ req' = [req EXCEPT ![r] =
               [rq EXCEPT !.pc = o.pc, !.statusCode = o.statusCode,
                          !.resBody = o.resBody, !.perfStart = o.perfStart,
                          !.faulted = o.faulted]]

-----------------------------------------------------------------------------
(* Actions.                                                                *)

\* A request is accepted: the middleware runs; without a body to read,
\* cors(), express.json() and the route handler run in the same turn.
\* Mutant of NewRequestId: the id is drawn once, when the middleware is set
\* up, and not in each request.
NewRequestIdAtSetup(drawn) == Uuid(1)

\* app.js:14: const requestId = uuidv4(), a draw of its own for each request.
\* uuidv4() is taken never to return a value twice.
NewRequestId(drawn) == Uuid(drawn + 1)

Arrive(r, in) ==
  /\ ~proc.exited /\ proc.listening
  /\ req[r].pc = "idle"
  /\ r > 1 => req[r - 1].pc # "idle"
  /\ LET requestId == NewRequestId(nextUuid)
         rq == [req[r] EXCEPT !.in = in, !.requestId = requestId, !.startTime = clock]
         c == [users |-> users, posts |-> posts, nextUuid |-> nextUuid + 1,
               now |-> clock, requestId |-> requestId, perfStart |-> 0]
         o == IF in.kind = "none"
                THEN Route(in, c)
                ELSE Outcome(<<>>, c, "parsing", 200, EmptyObject, FALSE)
     IN /\ Deliver(r, MiddlewareTurn(RequestReceived(in, requestId, clock), o.calls))
        /\ Settle(r, o, rq)
  /\ UNCHANGED <<clock, activeSpan, proc>>

\* The body has been read: express.json() and what follows it.
BodyParsed(r) ==
  /\ ~proc.exited
  /\ req[r].pc = "parsing"
  /\ LET o == ExpressJson(req[r].in, Context(r))
     IN Deliver(r, o.calls) /\ Settle(r, o, req[r])
  /\ UNCHANGED <<clock, activeSpan, proc>>

\* The timers of async-operations have fired: the handler resumes after the await.
AsyncResume(r) ==
  /\ ~proc.exited
  /\ req[r].pc = "awaiting"
  /\ LET o == PerfCompleted(req[r].in, Context(r))
     IN Deliver(r, o.calls) /\ Settle(r, o, req[r])
  /\ UNCHANGED <<clock, activeSpan, proc>>

\* The response has been handed off: res emits finish.
Finish(r) ==
  /\ ~proc.exited
  /\ req[r].pc = "responded"
  /\ Deliver(r, FinishCalls(r))
  /\ req' = [req EXCEPT ![r].pc = "done"]
  /\ UNCHANGED <<users, posts, nextUuid, clock, activeSpan, proc>>

\* Time passes.
Tick ==
  /\ ~proc.exited
  /\ clock < MaxClock
  /\ clock' = clock + 1
  /\ UNCHANGED <<users, posts, req, durable, console, trail, nextUuid, activeSpan, proc>>

\* The instrumentation makes another span the active one of the context of
\* request r (a span starts, or the active one ends and its parent, or none,
\* is active again).  The server span starts before the middleware runs.
SpanChange(r, span) ==
  /\ ~proc.exited
  /\ req[r].pc # "done"
  /\ r > 1 => req[r - 1].pc # "idle"
  /\ activeSpan[r] # span
  /\ activeSpan' = [activeSpan EXCEPT ![r] = span]
  /\ UNCHANGED <<users, posts, req, durable, console, trail, clock, nextUuid, proc>>

-----------------------------------------------------------------------------
(* app.js:323-338  graceful shutdown                                       *)

ShutdownInitiated(now) ==
  Call("warn",
    ("event" :> "SHUTDOWN_INITIATED")
    @@ ("message" :> "SIGTERM received. Initiating graceful shutdown")
    @@ ("timestamp" :> ToISOString(now)))

ServerStopped(now) ==
  Call("info",
    ("event" :> "SERVER_STOPPED")
    @@ ("message" :> "Server stopped gracefully")
    @@ ("timestamp" :> ToISOString(now)))

\* Mutant of ConnectionsEnded: the callback runs without waiting for the
\* connections, as if process.exit followed server.close() directly.
ConnectionsEndedAtOnce == TRUE

\* server.close(callback): the callback runs once the server has closed,
\* which is when every connection has ended; the connection of a request
\* lasts until its response has finished.
ConnectionsEnded == \A r \in Req : req[r].pc \in {"idle", "done"}

\* Mutant of ListenerAfterSigterm: the handler logs and does not close the server.
ListenerLeftOpen == proc.listening

\* server.close(): the server stops accepting connections at once.
ListenerAfterSigterm == FALSE

\* The process receives SIGTERM: the handler logs, then calls server.close.
Sigterm ==
  /\ ~proc.exited
  /\ proc.sigterms < MaxSigterm
  /\ Transports(0, NoSpan, <<ShutdownInitiated(clock)>>)
  /\ proc' = [proc EXCEPT !.listening = ListenerAfterSigterm, !.sigterms = @ + 1]
  /\ UNCHANGED <<users, posts, req, clock, nextUuid, activeSpan>>

\* The server has closed: the callback of the first server.close logs and
\* ends the process (callbacks of later calls would run after it, and so
\* never run).
ServerClosed ==
  /\ ~proc.exited
  /\ proc.sigterms > 0
  /\ ConnectionsEnded
  /\ Transports(0, NoSpan, <<ServerStopped(clock)>>)
  /\ proc' = [proc EXCEPT !.exited = TRUE]
  /\ UNCHANGED <<users, posts, req, clock, nextUuid, activeSpan>>

-----------------------------------------------------------------------------
(* Inputs and specifications.                                              *)

UserBody(username, email, age) ==
  [NoFields EXCEPT !.username = username, !.email = email, !.age = age]

PostBody(userId) ==
  [NoFields EXCEPT !.userId = userId, !.title = Str("t"), !.content = Str("c")]

\* One request of each kind of outcome.
LifecycleInputs ==
  { Input("health", "", "none", NoFields),
    Input("users", "", "object", UserBody(Str("a"), Str("b@c.com"), Num(25))),
    Input("users", "", "object", UserBody(Undefined, Str("b@c.com"), Num(25))),
    Input("users", "", "malformed", NoFields),
    Input("users", "", "none", NoFields),
    Input("posts", "", "object", PostBody(Str("ghost"))),
    Input("perf", "async-operations", "none", NoFields),
    Input("simerr", "custom", "none", NoFields) }

Next ==
  \E r \in Req :
    \/ \E in \in LifecycleInputs : Arrive(r, in)
    \/ BodyParsed(r)
    \/ AsyncResume(r)
    \/ Finish(r)

\* Runs in which every reading of the clock is the same, without tracing.js.
Spec == Init /\ [][Next]_vars

\* Runs in which time passes.
TimingInputs ==
  { Input("health", "", "none", NoFields),
    Input("users", "", "malformed", NoFields) }

NextTiming ==
  \/ Tick
  \/ \E r \in Req :
       \/ \E in \in TimingInputs : Arrive(r, in)
       \/ BodyParsed(r)
       \/ Finish(r)

SpecTiming == Init /\ [][NextTiming]_vars

\* Runs with tracing.js loaded: spans come and go.
TraceInputs ==
  { Input("health", "", "none", NoFields),
    Input("users", "", "malformed", NoFields),
    Input("perf", "async-operations", "none", NoFields) }

NextTrace ==
  \E r \in 1..TraceReqs :
    \/ \E in \in TraceInputs : Arrive(r, in)
    \/ BodyParsed(r)
    \/ AsyncResume(r)
    \/ Finish(r)
    \/ \E span \in SpanContexts \cup {NoSpan} : SpanChange(r, span)

SpecTrace == Init /\ [][NextTrace]_vars

\* Runs of GET /simulate-error/:type alone.
SimInputs ==
  { Input("simerr", type, "none", NoFields) :
      type \in {"reference", "type", "syntax", "custom", "other"} }

NextSim ==
  \E r \in Req :
    \/ \E in \in SimInputs : Arrive(r, in)
    \/ Finish(r)

SpecSim == Init /\ [][NextSim]_vars

\* Runs of POST /users alone, with bodies that parse.
UsersInputs ==
  { Input("users", "", "object", UserBody(Str("a"), Str("b@c.com"), age)) :
      age \in {Undefined, Num(0), Num(25), Str("abc")} }
  \cup
  { Input("users", "", "object", body) :
      body \in { UserBody(Undefined, Str("b@c.com"), Undefined),
                 UserBody(Str("a"), Undefined, Num(25)),
                 UserBody(Undefined, Undefined, Num(-1)),
                 UserBody(Str(""), Str("b@c.com"), Str("-5")) } }

NextUsers ==
  \E r \in Req :
    \/ \E in \in UsersInputs : Arrive(r, in)
    \/ BodyParsed(r)
    \/ Finish(r)

SpecUsers == Init /\ [][NextUsers]_vars

\* Runs on the two stores: users are created, posts name the id of a user
\* created earlier in the run (the second or third uuid drawn), of no user,
\* or of nothing, and requests of the other routes pass in between.
StoresInputs ==
  { Input("users", "", "object", UserBody(Str("a"), Str("b@c.com"), Num(25))),
    Input("users", "", "object", UserBody(Undefined, Str("b@c.com"), Num(25))),
    Input("posts", "", "malformed", NoFields),
    Input("health", "", "none", NoFields),
    Input("perf", "cpu-intensive", "none", NoFields),
    Input("simerr", "custom", "none", NoFields) }
  \cup
  { Input("posts", "", "object", PostBody(userId)) :
      userId \in {Str(Uuid(2)), Str(Uuid(3)), Str("ghost"), Undefined} }

NextStores ==
  \E r \in Req :
    \/ \E in \in StoresInputs : Arrive(r, in)
    \/ BodyParsed(r)
    \/ Finish(r)

SpecStores == Init /\ [][NextStores]_vars

\* Runs with a SIGTERM: a request answered in its arrival turn, one whose
\* body is still to come, and one suspended in an await may each be under
\* way when the signal is handled.
ShutdownInputs ==
  { Input("health", "", "none", NoFields),
    Input("users", "", "malformed", NoFields),
    Input("perf", "async-operations", "none", NoFields) }

NextShutdown ==
  \/ \E r \in Req :
       \/ \E in \in ShutdownInputs : Arrive(r, in)
       \/ BodyParsed(r)
       \/ AsyncResume(r)
       \/ Finish(r)
  \/ Sigterm
  \/ ServerClosed

SpecShutdown == Init /\ [][NextShutdown]_vars

\* Performance tests of each scenario and of an unknown one, with another
\* request to run while one of them is suspended.
PerfInputs ==
  { Input("perf", scenario, "none", NoFields) :
      scenario \in PerfScenarios \cup {"unknown"} }
  \cup { Input("health", "", "none", NoFields) }

NextPerf ==
  \E r \in Req :
    \/ \E in \in PerfInputs : Arrive(r, in)
    \/ AsyncResume(r)
    \/ Finish(r)

SpecPerf == Init /\ [][NextPerf]_vars

\* Runs with a SIGTERM in which the requests under way do finish: their
\* handlers are suspended in an await, or their responses are still to finish,
\* when the signal comes.  The event loop never stays idle while a callback is
\* ready: the close callback once the server has closed, the next turn of a
\* request once its timers or the end of its response have come, which for a
\* request under way they are taken to do.
DrainInputs == { Input("perf", "async-operations", "none", NoFields) }

EventLoopTurn ==
  \/ \E r \in 1..DrainReqs : AsyncResume(r) \/ Finish(r)
  \/ ServerClosed

NextDrain ==
  \/ \E r \in 1..DrainReqs : \E in \in DrainInputs : Arrive(r, in)
  \/ EventLoopTurn
  \/ Sigterm

SpecDrain == Init /\ [][NextDrain]_vars /\ WF_vars(EventLoopTurn)

-----------------------------------------------------------------------------
(* Properties.                                                             *)

\* The positions in the durable log of the records request r emitted.
By(r) == {i \in DOMAIN durable : trail[i].by = r}

\* Those among them that record event e.
Of(r, e) == {i \in By(r) : durable[i].event = e}

Arrived(r) == req[r].pc # "idle"

TerminalEvents == {"REQUEST_COMPLETED", "UNHANDLED_ERROR"}

\* C1, as stated: every request has exactly one REQUEST_RECEIVED and exactly
\* one terminal record, REQUEST_COMPLETED or UNHANDLED_ERROR, never both.
C1_AsStated ==
  \A r \in Req :
    /\ Arrived(r) => Cardinality(Of(r, "REQUEST_RECEIVED")) = 1
    /\ Cardinality(Of(r, "REQUEST_COMPLETED")) + Cardinality(Of(r, "UNHANDLED_ERROR")) <= 1
    /\ req[r].pc = "done" =>
         Cardinality(Of(r, "REQUEST_COMPLETED")) + Cardinality(Of(r, "UNHANDLED_ERROR")) = 1

\* C1, amended: every request has exactly one REQUEST_RECEIVED from its
\* entry on, exactly one REQUEST_COMPLETED once its response has finished
\* (none before), and an UNHANDLED_ERROR exactly when a fault escaped to the
\* global error handler, in which case it has both, UNHANDLED_ERROR first.
C1_ReceivedOnceCompletedOnce ==
  \A r \in Req :
    /\ Cardinality(Of(r, "REQUEST_RECEIVED")) = IF Arrived(r) THEN 1 ELSE 0
    /\ Cardinality(Of(r, "REQUEST_COMPLETED")) = IF req[r].pc = "done" THEN 1 ELSE 0
    /\ Cardinality(Of(r, "UNHANDLED_ERROR")) = IF req[r].faulted THEN 1 ELSE 0
    /\ \A i \in Of(r, "UNHANDLED_ERROR") : \A j \in Of(r, "REQUEST_COMPLETED") : i < j

\* A request whose fault escaped has finished, next to one that completed normally.
C1_Witness ==
  \E r, q \in Req :
    /\ req[r].pc = "done" /\ req[r].faulted
    /\ Of(r, "UNHANDLED_ERROR") # {} /\ Of(r, "REQUEST_COMPLETED") # {}
    /\ req[q].pc = "done" /\ ~req[q].faulted

\* C2: records emitted for the same request carry the same requestId (the
\* one of its REQUEST_RECEIVED), records emitted for different requests
\* carry different ones, however the turns of the requests interleave.
C2_OwnCorrelationId ==
  \A i, j \in DOMAIN durable :
    (trail[i].by = trail[j].by) <=> (durable[i].requestId = durable[j].requestId)

\* A request was received and completed while another was suspended in
\* /performance-test/async-operations, which then resumed.
C2_Witness ==
  \E r, q \in Req :
    /\ r # q
    /\ \E i \in Of(r, "PERFORMANCE_TEST_STARTED") :
       \E k \in Of(r, "PERFORMANCE_TEST_COMPLETED") :
         /\ \E j \in Of(q, "REQUEST_RECEIVED") : i < j /\ j < k
         /\ \E j \in Of(q, "REQUEST_COMPLETED") : i < j /\ j < k

\* C3: a request whose body express.json() cannot parse is answered by the
\* global error handler and by nothing else: one UNHANDLED_ERROR record at
\* error level with the fault's message and stack, the path, the method and
\* the request's id; status 500, body {error, requestId, message}.  A request
\* whose handler ran never reaches the global error handler, also not after
\* the async handler was suspended.
C3_GlobalBoundary ==
  \A r \in Req :
    /\ req[r].in.kind = "malformed" /\ req[r].pc \in {"responded", "done"}
         => req[r].faulted
    /\ req[r].faulted =>
         /\ req[r].in.kind = "malformed"
         /\ req[r].pc \in {"responded", "done"}
         /\ req[r].statusCode = 500
         /\ req[r].resBody = ("error" :> "Internal Server Error")
                             @@ ("requestId" :> req[r].requestId)
                             @@ ("message" :> JsonFault.message)
         /\ \E i \in Of(r, "UNHANDLED_ERROR") :
              /\ Of(r, "UNHANDLED_ERROR") = {i}
              /\ durable[i].level = "error"
              /\ durable[i].error = JsonFault.message
              /\ durable[i].stack = JsonFault.stack
              /\ durable[i].path = Path(req[r].in)
              /\ durable[i].method = Method(req[r].in)
              /\ durable[i].requestId = req[r].requestId
    /\ req[r].in.kind # "malformed" => Of(r, "UNHANDLED_ERROR") = {}

\* The global error handler has answered one request while the async handler
\* of another, suspended before, has resumed and answered by itself.
C3_Witness ==
  \E r, q \in Req :
    /\ req[r].faulted /\ req[r].statusCode = 500 /\ Of(r, "UNHANDLED_ERROR") # {}
    /\ Of(q, "PERFORMANCE_TEST_COMPLETED") # {} /\ ~req[q].faulted

\* C4: a request answered by its handler, whatever the status, has, once the
\* response has finished, one REQUEST_COMPLETED at info level with the
\* status code of the response and a duration, and no UNHANDLED_ERROR.
C4_HandlerResponseCompletes ==
  \A r \in Req :
    req[r].pc = "done" /\ ~req[r].faulted =>
      /\ req[r].statusCode \in {200, 201, 400, 404, 500}
      /\ \E i \in Of(r, "REQUEST_COMPLETED") :
           /\ Of(r, "REQUEST_COMPLETED") = {i}
           /\ durable[i].level = "info"
           /\ durable[i].statusCode = req[r].statusCode
           /\ "duration" \in DOMAIN durable[i]
      /\ Of(r, "UNHANDLED_ERROR") = {}

\* A handler-produced 500 and a 404 have both completed.
C4_Witness ==
  \E r, q \in Req :
    /\ req[r].pc = "done" /\ ~req[r].faulted /\ req[r].statusCode = 500
    /\ req[q].pc = "done" /\ ~req[q].faulted /\ req[q].statusCode = 404
    /\ \E i \in Of(q, "REQUEST_COMPLETED") : durable[i].statusCode = 404

\* C5: among the records of one request REQUEST_RECEIVED comes first, and
\* nothing but terminal records follows a terminal record.
C5_ReceivedFirstTerminalLast ==
  \A r \in Req :
    \A i \in By(r) :
      /\ durable[i].event # "REQUEST_RECEIVED" =>
           \E j \in Of(r, "REQUEST_RECEIVED") : j < i
      /\ durable[i].event \in TerminalEvents =>
           \A j \in By(r) : j > i => durable[j].event \in TerminalEvents

\* A request with two handler records has finished after a turn of another
\* request came between its entry and its end.
C5_Witness ==
  \E r, q \in Req :
    /\ r # q
    /\ req[r].pc = "done"
    /\ \E i \in Of(r, "REQUEST_RECEIVED") : \E k \in Of(r, "REQUEST_COMPLETED") :
         /\ Cardinality({j \in By(r) : i < j /\ j < k}) >= 2
         /\ \E j \in By(q) : i < j /\ j < k

TraceFields == {"trace_id", "span_id", "trace_flags"}

\* C6: a record has trace_id, span_id and trace_flags exactly when a span
\* was active when it was emitted, and then they are that span's
\* identifiers (the flags in hexadecimal); without a span the three fields
\* are absent.
C6_TraceFieldsOfActiveSpan ==
  \A i \in DOMAIN durable :
    IF trail[i].span = NoSpan
      THEN TraceFields \cap DOMAIN durable[i] = {}
      ELSE /\ TraceFields \subseteq DOMAIN durable[i]
           /\ durable[i].trace_id = trail[i].span.traceId
           /\ durable[i].span_id = trail[i].span.spanId
           /\ durable[i].trace_flags = ToString16(trail[i].span.traceFlags)
           /\ durable[i].trace_id # "" /\ durable[i].span_id # ""

\* One request has emitted two records under different spans and one under none.
C6_Witness ==
  \E r \in Req : \E i, j, k \in By(r) :
    /\ TraceFields \subseteq DOMAIN durable[i]
    /\ TraceFields \subseteq DOMAIN durable[j]
    /\ durable[i].span_id # durable[j].span_id
    /\ TraceFields \cap DOMAIN durable[k] = {}

\* The durations a record can show for a clock within its bound.
Durations == {Ms(d) : d \in 0..MaxClock}

\* C7, as stated: every terminal record, REQUEST_COMPLETED and
\* UNHANDLED_ERROR alike, carries a duration, which is not negative.
C7_AsStated ==
  \A i \in DOMAIN durable :
    durable[i].event \in TerminalEvents =>
      "duration" \in DOMAIN durable[i] /\ durable[i].duration \in Durations

\* C7, amended: every REQUEST_COMPLETED record carries the time from the
\* request's entry to the finish of its response, which is not negative;
\* an UNHANDLED_ERROR record carries no duration.
C7_CompletedDuration ==
  \A r \in Req : \A i \in By(r) :
    /\ durable[i].event = "REQUEST_COMPLETED" =>
         /\ "duration" \in DOMAIN durable[i]
         /\ durable[i].duration \in Durations
         /\ \A j \in Of(r, "REQUEST_RECEIVED") :
              durable[i].duration = Ms(trail[i].at - trail[j].at)
    /\ durable[i].event = "UNHANDLED_ERROR" => "duration" \notin DOMAIN durable[i]

\* A request answered by the global error handler has finished after time
\* passed: its REQUEST_COMPLETED shows more than 0ms.
C7_Witness ==
  \E r \in Req :
    /\ Of(r, "UNHANDLED_ERROR") # {}
    /\ \E i \in Of(r, "REQUEST_COMPLETED") : durable[i].duration # Ms(0)

SimulatedTypes == {"reference", "type", "syntax", "custom"}

\* C9: a GET /simulate-error/:type for one of the four types is answered by
\* its handler in the turn it arrives: one ERROR_SIMULATION_TRIGGERED record
\* at error level with the fault's message and stack and the request's id,
\* status 500, body {error: 'Simulated error', type, message}, and never an
\* UNHANDLED_ERROR record.
C9_SimulatedFaultCaught ==
  \A r \in Req :
    Arrived(r) /\ req[r].in.route = "simerr" /\ req[r].in.param \in SimulatedTypes =>
      /\ ~req[r].faulted
      /\ Of(r, "UNHANDLED_ERROR") = {}
      /\ req[r].statusCode = 500
      /\ DOMAIN req[r].resBody = {"error", "type", "message"}
      /\ req[r].resBody["error"] = "Simulated error"
      /\ req[r].resBody["type"] = req[r].in.param
      /\ req[r].in.param = "custom" =>
           req[r].resBody["message"] = "Custom application error"
      /\ \E i \in Of(r, "ERROR_SIMULATION_TRIGGERED") :
           /\ Of(r, "ERROR_SIMULATION_TRIGGERED") = {i}
           /\ durable[i].level = "error"
           /\ durable[i].error = req[r].resBody["message"]
           /\ durable[i].stack = SimulatedError(req[r].in.param).stack
           /\ durable[i].requestId = req[r].requestId
           /\ durable[i].errorType = req[r].in.param

\* A syntax fault and a custom fault have both been answered and finished.
C9_Witness ==
  \E r, q \in Req :
    /\ req[r].pc = "done" /\ req[r].in.param = "syntax" /\ req[r].statusCode = 500
    /\ req[q].pc = "done" /\ req[q].in.param = "custom"
    /\ Of(r, "ERROR_SIMULATION_TRIGGERED") # {}

Range(f) == {f[x] : x \in DOMAIN f}

AgeInvalid(age) == ~Falsy(age) /\ (IsNaN(age) \/ LessThanZero(age))

FailsValidation(body) ==
  Falsy(body.username) \/ Falsy(body.email) \/ AgeInvalid(body.age)

\* The turn in which the POST /users handler of r runs.
UsersHandlerTurn(r) ==
  /\ req[r].in.route = "users" /\ req[r].in.kind = "object"
  /\ req[r].pc = "parsing" /\ req'[r].pc # "parsing"

\* C10: the turn of a POST /users handler whose body fails validation ends
\* with status 400 and body {errors}, errors holding one message for each
\* violated rule and no other (exactly 'Username is required' when only the
\* username is missing); it emits one record, VALIDATION_FAILED at warn
\* level, and leaves users as it was.
C10_ValidationFailure ==
  [][ \A r \in Req :
        UsersHandlerTurn(r) /\ FailsValidation(req[r].in.body) =>
          LET body == req[r].in.body
              n == Len(durable)
          IN /\ req'[r].statusCode = 400
             /\ DOMAIN req'[r].resBody = {"errors"}
             /\ LET errors == req'[r].resBody["errors"]
                IN /\ Len(errors) = Cardinality(Range(errors))
                   /\ "Username is required" \in Range(errors) <=> Falsy(body.username)
                   /\ "Email is required" \in Range(errors) <=> Falsy(body.email)
                   /\ "Invalid age" \in Range(errors) <=> AgeInvalid(body.age)
                   /\ Range(errors) \subseteq
                        {"Username is required", "Email is required", "Invalid age"}
                   /\ Falsy(body.username) /\ ~Falsy(body.email) /\ ~AgeInvalid(body.age)
                        => errors = <<"Username is required">>
             /\ Len(durable') = n + 1
             /\ durable'[n + 1].event = "VALIDATION_FAILED"
             /\ durable'[n + 1].level = "warn"
             /\ durable'[n + 1].requestId = req[r].requestId
             /\ users' = users
             /\ posts' = posts
    ]_vars

\* With a user stored, a body without username (and nothing else wrong) was
\* answered 400 with exactly that message, and the store still holds the user.
C10_Witness ==
  \E r \in Req :
    /\ req[r].statusCode = 400
    /\ req[r].resBody = ("errors" :> <<"Username is required">>)
    /\ \E i \in Of(r, "VALIDATION_FAILED") :
         \E j \in DOMAIN durable :
           j < i /\ durable[j].event = "USER_CREATED"
                 /\ durable[j].userId \in DOMAIN users

\* The turn in which the POST /posts handler runs on a parsed body.
PostsHandlerTurn(r) ==
  /\ req[r].in.route = "posts" /\ req[r].in.kind = "object"
  /\ req[r].pc = "parsing" /\ req'[r].pc # "parsing"

\* The userId a request sent is a key of the users storage now.
UserPresent(r) ==
  LET userId == req[r].in.body.userId
  IN userId.t = "string" /\ \E k \in DOMAIN users : k = userId.s

\* C11: the turn of a POST /posts handler whose userId is not a key of users
\* at that moment ends with status 404 and body {error: 'User not found'},
\* emits one record, POST_CREATION_FAILED at warn level, and leaves posts as
\* it was; and whenever posts changes or a POST /posts is answered 201, it is
\* in the handler turn of a request whose userId is a key of users.
C11_UnknownUserRejected ==
  [][ /\ \A r \in Req :
          PostsHandlerTurn(r) /\ ~UserPresent(r) =>
            LET n == Len(durable)
            IN /\ req'[r].statusCode = 404
               /\ req'[r].resBody = ("error" :> "User not found")
               /\ Len(durable') = n + 1
               /\ durable'[n + 1].event = "POST_CREATION_FAILED"
               /\ durable'[n + 1].level = "warn"
               /\ durable'[n + 1].requestId = req[r].requestId
               /\ posts' = posts
      /\ \A r \in Req :
          PostsHandlerTurn(r) /\ req'[r].statusCode = 201 => UserPresent(r)
      /\ posts' # posts =>
          \E r \in Req : /\ PostsHandlerTurn(r) /\ UserPresent(r)
                         /\ req'[r].statusCode = 201
    ]_vars

\* With a user stored, a post naming another id was answered 404 'User not
\* found' with its POST_CREATION_FAILED record, and no post is stored.
C11_Witness ==
  \E r \in Req :
    /\ req[r].in.route = "posts"
    /\ req[r].statusCode = 404
    /\ req[r].resBody = ("error" :> "User not found")
    /\ Of(r, "POST_CREATION_FAILED") # {}
    /\ req[r].in.body.userId.t = "string"
    /\ users # EmptyObject
    /\ posts = EmptyObject

\* The positions in the durable log of the records of event e.
Event(e) == {i \in DOMAIN durable : durable[i].event = e}

Attributes(info) == DOMAIN info \ {"level", "message", "timestamp", "event"}

\* The durable sink holds the full record: the correlation id of the request
\* that emitted it and, under a span, the trace fields.
DurableFull(i) ==
  /\ trail[i].by \in Req =>
       "requestId" \in DOMAIN durable[i] /\ durable[i].requestId # ""
  /\ trail[i].span # NoSpan => TraceFields \subseteq DOMAIN durable[i]

\* C13, as stated: the attribute block of the console line holds attributes
\* of the record but neither the trace fields nor requestId, and the durable
\* sink has the full record.
C13_AsStated ==
  \A i \in DOMAIN durable :
    /\ DOMAIN console[i].meta \subseteq
         Attributes(durable[i]) \ (TraceFields \cup {"requestId"})
    /\ DurableFull(i)

\* C13: the attribute block of the console line is the record's attributes
\* minus the trace fields (trace_id, span_id, trace_flags) and minus the
\* service field, each with the record's value; requestId is not stripped
\* and stays in the block.  The durable sink has the full record.
C13_ConsoleKeepsRequestId ==
  \A i \in DOMAIN durable :
    /\ DOMAIN console[i].meta =
         Attributes(durable[i]) \ (TraceFields \cup {"service"})
    /\ \A k \in DOMAIN console[i].meta : console[i].meta[k] = durable[i][k]
    /\ "requestId" \in DOMAIN durable[i] => "requestId" \in DOMAIN console[i].meta
    /\ DurableFull(i)

\* A record emitted under a span: the durable sink has its trace fields and
\* requestId, the console block has the requestId and none of the trace fields.
C13_Witness ==
  \E i \in DOMAIN durable :
    /\ TraceFields \cup {"requestId", "service"} \subseteq DOMAIN durable[i]
    /\ "requestId" \in DOMAIN console[i].meta
    /\ console[i].meta.requestId = durable[i].requestId
    /\ TraceFields \cap DOMAIN console[i].meta = {}

\* C14: no two requests have the same correlation id, and the id a request
\* was given at entry (the one on its REQUEST_RECEIVED record) is the id it
\* has at every later step, up to and after the end of its response.
C14_CorrelationIdUniqueAndFixed ==
  [][ /\ \A r, q \in Req :
          r # q /\ Arrived(r)' /\ Arrived(q)' =>
            req'[r].requestId # req'[q].requestId
      /\ \A r \in Req :
          /\ Arrived(r) => req'[r].requestId = req[r].requestId
          /\ Arrived(r)' =>
               \A i \in Of(r, "REQUEST_RECEIVED")' :
                 durable'[i].requestId = req'[r].requestId
    ]_vars

\* Two requests have finished, with a user's id drawn between their two
\* correlation ids, and the two ids differ.
C14_Witness ==
  \E r, q \in Req :
    /\ r # q
    /\ req[r].pc = "done" /\ req[q].pc = "done"
    /\ req[r].requestId # req[q].requestId
    /\ Of(r, "REQUEST_COMPLETED") # {} /\ Of(q, "REQUEST_COMPLETED") # {}
    /\ users # EmptyObject
    /\ \A k \in DOMAIN users : k \notin {req[r].requestId, req[q].requestId}

\* The events whose logger call passes a timestamp of the caller's own.
CallerStamped ==
  {"REQUEST_RECEIVED", "REQUEST_COMPLETED", "UNHANDLED_ERROR",
   "SHUTDOWN_INITIATED", "SERVER_STOPPED"}

\* The timestamp the emitter makes at time now: to the second, in its format.
EmitterTimestamp(now) ==
  [format |-> "YYYY-MM-DD HH:mm:ss", ms |-> now - (now % 1000)]

C16_ReferentialIntegrity ==
  /\ \A p \in DOMAIN posts :
       /\ posts[p].id = p
       /\ posts[p].userId.t = "string"
       /\ \E u \in DOMAIN users : u = posts[p].userId.s
  /\ \A u \in DOMAIN users : users[u].id = u

\* A post is stored, under its id, and names a stored user.
C16_Witness ==
  \E p \in DOMAIN posts : \E u \in DOMAIN users :
    /\ posts[p].id = p /\ users[u].id = u
    /\ posts[p].userId = Str(u)
    /\ \E r \in Req : req[r].statusCode = 201 /\ req[r].resBody.id = p

\* C17: a performance-test request emits PERFORMANCE_TEST_STARTED once, on
\* arrival, and then at most one of PERFORMANCE_TEST_COMPLETED and
\* PERFORMANCE_TEST_FAILED, after it; once answered it has emitted exactly
\* one of the two: COMPLETED with status 200 when the scenario is
\* cpu-intensive, memory-intensive or async-operations, FAILED with status
\* 500 for any other; while it is suspended it has emitted neither.
C17_OneOutcomePerTest ==
  \A r \in Req :
    Arrived(r) /\ req[r].in.route = "perf" =>
      LET started == Of(r, "PERFORMANCE_TEST_STARTED")
          completed == Of(r, "PERFORMANCE_TEST_COMPLETED")
          failed == Of(r, "PERFORMANCE_TEST_FAILED")
          known == req[r].in.param \in
                     {"cpu-intensive", "memory-intensive", "async-operations"}
      IN /\ Cardinality(started) = 1
         /\ Cardinality(completed \cup failed) <= 1
         /\ \A i \in started : \A j \in completed \cup failed : i < j
         /\ req[r].pc = "awaiting" => completed \cup failed = {}
         /\ req[r].pc \in {"responded", "done"} =>
              /\ Cardinality(completed \cup failed) = 1
              /\ completed # {} <=> known
              /\ failed # {} <=> ~known
              /\ req[r].statusCode = IF known THEN 200 ELSE 500
              /\ \A j \in completed \cup failed :
                   durable[j].scenario = req[r].in.param

\* A performance test was suspended while another started, failed on its
\* unknown scenario and finished; the first then completed.
C17_Witness ==
  \E r, q \in Req :
    /\ req[r].in.route = "perf" /\ req[q].in.route = "perf"
    /\ \E i \in Of(r, "PERFORMANCE_TEST_STARTED") :
       \E j \in Of(q, "PERFORMANCE_TEST_FAILED") :
       \E k \in Of(q, "REQUEST_COMPLETED") :
       \E l \in Of(r, "PERFORMANCE_TEST_COMPLETED") :
         i < j /\ j < k /\ k < l
    /\ req[r].statusCode = 200 /\ req[q].statusCode = 500

\* Request r takes a step: it arrives, one of its turns runs, or its response
\* finishes.
Acts(r) == req'[r] # req[r]

\* Every entry of store s is an entry of store t.
Kept(s, t) == \A k \in DOMAIN s : k \in DOMAIN t /\ t[k] = s[k]

\* Store t is store s and one entry more.
OneAdded(s, t) ==
  /\ Kept(s, t)
  /\ \E k \in DOMAIN t : k \notin DOMAIN s /\ DOMAIN t = DOMAIN s \cup {k}

\* C18: a step of a GET /health, performance-test or simulate-error request,
\* and a turn that ends in the global error handler, leave users and posts
\* as they were; a step of a POST /users leaves posts, a step of a POST
\* /posts leaves users; a POST answered 201 adds exactly one entry to its
\* store; and no step removes an entry or changes the value of one.
C18_Frame ==
  [][ /\ Kept(users, users') /\ Kept(posts, posts')
      /\ \A r \in Req :
          Acts(r) =>
            LET route == req'[r].in.route
                created == req[r].pc = "parsing" /\ req'[r].statusCode = 201
            IN /\ route \in {"health", "perf", "simerr"} =>
                    users' = users /\ posts' = posts
               /\ req'[r].faulted /\ ~req[r].faulted =>
                    users' = users /\ posts' = posts
               /\ route = "users" => posts' = posts
               /\ route = "posts" => users' = users
               /\ route = "users" /\ created => OneAdded(users, users')
               /\ route = "posts" /\ created => OneAdded(posts, posts')
               /\ ~created => users' = users /\ posts' = posts
    ]_vars

\* After a user was stored, a simulate-error request arrived and was answered
\* 500, and the user is still stored as created.
C18_Witness ==
  \E r \in Req :
    /\ req[r].in.route = "simerr" /\ req[r].statusCode = 500
    /\ \E i \in Event("USER_CREATED") : \E j \in Of(r, "REQUEST_RECEIVED") :
         /\ i < j
         /\ DOMAIN users = {durable[i].userId}
         /\ users[durable[i].userId].id = durable[i].userId
    /\ Of(r, "REQUEST_COMPLETED") # {}
    /\ posts = EmptyObject

\* Request r has emitted its terminal record and its response has finished.
Terminated(r) ==
  /\ req[r].pc = "done"
  /\ \E i \in By(r) : durable[i].event \in TerminalEvents
  /\ Of(r, "REQUEST_COMPLETED") # {}

\* C19: the process has exited only when every request that emitted
\* REQUEST_RECEIVED has emitted its terminal record, those under way at the
\* SIGTERM included; and, the requests under way finishing, a SIGTERM leads
\* to SERVER_STOPPED and the exit of the process.
C19_ShutdownDrains ==
  /\ [](proc.exited => \A r \in Req : Arrived(r) => Terminated(r))
  /\ (proc.sigterms > 0) ~> (proc.exited /\ Event("SERVER_STOPPED") # {})

\* The process has exited; a request suspended in its handler at the SIGTERM
\* resumed after it and emitted its terminal record before SERVER_STOPPED.
C19_Witness ==
  /\ proc.exited
  /\ \E r \in Req :
       \E i \in Of(r, "REQUEST_RECEIVED") :
       \E j \in Event("SHUTDOWN_INITIATED") :
       \E h \in Of(r, "PERFORMANCE_TEST_COMPLETED") :
       \E k \in Of(r, "REQUEST_COMPLETED") :
       \E l \in Event("SERVER_STOPPED") :
         i < j /\ j < h /\ h < k /\ k < l

====
